---- MODULE Spec2Model ----
(***************************************************************************)
(* Session and SessionFlusher of packages/hub/src/session.ts.              *)
(*                                                                         *)
(* Spec         the SessionFlusher: incrementSessionCount, flush, close,   *)
(*              the recurring timer and the settling of in-flight sends.    *)
(* SessionSpec  one Session record under update() and close().             *)
(***************************************************************************)
EXTENDS Integers, Sequences, FiniteSets, TLC

(***************************************************************************)
(* Bounds of the model.                                                    *)
(***************************************************************************)
MaxCalls == 2       \* incrementSessionCount() calls in one behaviour
MaxSessions == 1    \* request sessions the scope hands out in one behaviour
MaxInvocations == 2 \* calls of a function wrapped by withAutosessionTracking

(***************************************************************************)
(* Dates.  Times are epoch milliseconds, as Date holds them.               *)
(***************************************************************************)
MsPerSecond == 1000
MsPerMinute == 60000
MsPerHour == 3600000

\* Offset of the process's local time from UTC: the process runs in UTC.
LocalOffset == 0 * MsPerHour

\* JS undefined, for string-valued slots.
Undefined == "undefined"

\* An optional value: <<>> is undefined, <<x>> is x.
None == <<>>
Some(x) == <<x>>

Range(s) == {s[i] : i \in DOMAIN s}

VARIABLES
    now,                \* what Date.now() / new Date() returns
    pendingAggregates,  \* _pendingAggregates: <<[key, value]>> in insertion order
    sessionAttrs,       \* _sessionAttrs: None or Some([release, environment])
    intervalActive,     \* the timer behind _intervalId is armed
    transportSends,     \* this._transport.sendSessions is defined
    client,             \* getCurrentHub().getClient(): None or Some(options)
    requestSession,     \* getScope().getRequestSession(): None or Some([id, status])
    sessionsMade,       \* request sessions handed out so far
    inflight,           \* indices of delivered payloads whose promise is unsettled
    delivered,          \* payloads passed to _transport.sendSessions, in order
    handed,             \* calls of this.sendSessions: payload and flusher state then
    cycleCalls,         \* incrementSessionCount() calls since the last flush that sent
    sessionCounts,      \* per request session id: counts it has contributed
    opTrace,            \* what the last operation did, step by step
    session,            \* the Session record
    invocation          \* the running call of a function wrapped by
                        \* withAutosessionTracking: where it stands (pc), how many
                        \* calls were made, the client at the call (clientThen),
                        \* what isAutosessionTrackingEnabled() returned, whether
                        \* an exception is on its way out, and the calls made

flusherVars == <<pendingAggregates, sessionAttrs, intervalActive, transportSends,
                 client, requestSession, sessionsMade, inflight, delivered,
                 handed, cycleCalls, sessionCounts, opTrace>>
clockVars == <<now>>
vars == <<now, pendingAggregates, sessionAttrs, intervalActive,
          transportSends, client, requestSession, sessionsMade, inflight,
          delivered, handed, cycleCalls, sessionCounts, opTrace,
                   session, invocation>>

(***************************************************************************)
(* Date arithmetic used by the flusher.                                    *)
(***************************************************************************)
\* The clock starts at 08:00:00.000 UTC of day 0.
StartOfClock == 8 * MsPerHour

\* The instants the clock shows: 08:00:00, 08:00:30 (the same minute), 08:01:00
\* (another minute of the same hour) and 09:00:00 (another hour).
Instants == {StartOfClock, StartOfClock + 30 * MsPerSecond,
             StartOfClock + MsPerMinute, StartOfClock + MsPerHour}

\* Date.prototype.setMinutes(0, 0, 0) on the date t: in local time, minutes,
\* seconds and milliseconds are set to 0; the result is the new epoch value.
SetMinutesZero(t, offset) ==
    LET local == t + offset
    IN  (local - (local % MsPerHour)) - offset

\* Date.prototype.toISOString(): the UTC fields of t (the hour counts from the
\* epoch, so it carries the date).
ToISOString(t) ==
    [hour   |-> t \div MsPerHour,
     minute |-> (t % MsPerHour) \div MsPerMinute,
     second |-> (t % MsPerMinute) \div MsPerSecond,
     ms     |-> t % MsPerSecond]

\* new Date().setMinutes(0, 0, 0): the bucket key incrementSessionCount uses.
SessionStartedTrunc(t, offset) == SetMinutesZero(t, offset)

(***************************************************************************)
(* The pending-aggregates table: a JS object, kept as its entries in       *)
(* insertion order.                                                        *)
(***************************************************************************)
Keys(p) == {p[i].key : i \in DOMAIN p}

IndexOf(p, k) == CHOOSE i \in DOMAIN p : p[i].key = k

\* AggregationCounts fresh from `{}`: no started, no counts.
EmptyCounts == [started |-> None, counts |-> [o \in {} |-> 0]]

\* this._pendingAggregates[k] = this._pendingAggregates[k] || {}
EnsureBucket(p, k) ==
    IF k \in Keys(p) THEN p ELSE Append(p, [key |-> k, value |-> EmptyCounts])

\* if (!aggregationCounts.started) aggregationCounts.started = new Date(k).toISOString()
SetStarted(b, k) ==
    IF b.started = None THEN [b EXCEPT !.started = Some(ToISOString(k))] ELSE b

\* c.f = c.f !== undefined ? c.f + 1 : 1
Bump(c, f) ==
    [x \in DOMAIN c \cup {f} |->
        IF x = f THEN (IF f \in DOMAIN c THEN c[f] + 1 ELSE 1) ELSE c[x]]

\* Variant: only status "ok" counts as exited.
OutcomeFieldOkOnly(st) == IF st = "ok" THEN "exited" ELSE "errored"

\* The outcome field incremented for an ambient request session of status st.
OutcomeField(st) == IF st = "errored" THEN "errored" ELSE "exited"

\* Variant: a call without an ambient session counts as exited.
CountRequestSessionOrNone(b, rs) ==
    [b EXCEPT !.counts =
        Bump(@, IF rs = None THEN "exited" ELSE OutcomeField(rs[1].status))]

\* if (requestSession) { ... increment errored or exited ... }
CountRequestSession(b, rs) ==
    IF rs = None THEN b
    ELSE [b EXCEPT !.counts = Bump(@, OutcomeField(rs[1].status))]

\* requestSession.status = undefined
ClearStatus(rs) ==
    IF rs = None THEN rs ELSE Some([rs[1] EXCEPT !.status = Undefined])

\* const { release, environment } = (client && client.getOptions()) || {}
ClientAttrs(c) ==
    IF c = None THEN [release |-> Undefined, environment |-> Undefined]
    ELSE [release |-> c[1].release, environment |-> c[1].environment]

\* Variant: the attributes are taken from the client on every call.
CaptureAttrsEveryCall(attrs, c) == Some(ClientAttrs(c))

\* if (!this._sessionAttrs) this._sessionAttrs = { release, environment }
CaptureAttrs(attrs, c) == IF attrs = None THEN Some(ClientAttrs(c)) ELSE attrs

\* The table after incrementSessionCount() at time t with ambient session rs.
PendingAfterIncrement(p, t, offset, rs) ==
    LET k  == SessionStartedTrunc(t, offset)
        p1 == EnsureBucket(p, k)
        i  == IndexOf(p1, k)
        b1 == SetStarted(p1[i].value, k)
        b2 == CountRequestSession(b1, rs)
    IN  [p1 EXCEPT ![i].value = b2]

\* Sum of all counts of a bucket, and of a table.
BucketTotal(b) ==
    (IF "errored" \in DOMAIN b.counts THEN b.counts["errored"] ELSE 0)
    + (IF "exited" \in DOMAIN b.counts THEN b.counts["exited"] ELSE 0)

RECURSIVE TableTotal(_)
TableTotal(p) ==
    IF p = <<>> THEN 0 ELSE BucketTotal(Head(p).value) + TableTotal(Tail(p))

(***************************************************************************)
(* flush() and sendSessions().                                             *)
(***************************************************************************)
\* Object.keys(this._pendingAggregates).map(key => this._pendingAggregates[parseInt(key)])
Aggregates(p) == [i \in DOMAIN p |-> p[i].value]

\* this._pendingAggregates = {}
ClearedAggregates == <<>>

\* this._sessionAttrs = undefined
ClearedAttrs == None

\* Variant: the table is not cleared.
FlushHandOffKeepsTable(p, attrs) ==
    [payload |-> [attrs |-> attrs, aggregates |-> Aggregates(p)],
     pendingAtCall |-> p, attrsAtCall |-> ClearedAttrs,
     pendingAfter |-> p, attrsAfter |-> ClearedAttrs]

\* Variant: the payload is sent first, the table and attrs are cleared after.
FlushHandOffSendsFirst(p, attrs) ==
    [payload |-> [attrs |-> attrs, aggregates |-> Aggregates(p)],
     pendingAtCall |-> p, attrsAtCall |-> attrs,
     pendingAfter |-> ClearedAggregates, attrsAfter |-> ClearedAttrs]

\* Variant: the attrs survive the flush.
FlushHandOffKeepsAttrs(p, attrs) ==
    [payload |-> [attrs |-> attrs, aggregates |-> Aggregates(p)],
     pendingAtCall |-> ClearedAggregates, attrsAtCall |-> attrs,
     pendingAfter |-> ClearedAggregates, attrsAfter |-> attrs]

\* flush() past its early return, up to the call of this.sendSessions: the
\* payload, and the table and attrs as they are when the call is made.
FlushHandOff(p, attrs) ==
    LET aggregates == Aggregates(p)
        p1         == ClearedAggregates
        payload    == [attrs |-> attrs, aggregates |-> aggregates]
        a1         == ClearedAttrs
    IN  [payload |-> payload, pendingAtCall |-> p1, attrsAtCall |-> a1,
         pendingAfter |-> p1, attrsAfter |-> a1]

\* Variant: no check that the transport has sendSessions.
SendSessionsUnguarded(hasSend) ==
    IF ~hasSend THEN <<"sendSessions", "TypeError">>
    ELSE <<"sendSessions", "transport.sendSessions">>

\* sendSessions(): what it does, given whether the transport has sendSessions.
SendSessionsTrace(hasSend) ==
    IF ~hasSend THEN <<"sendSessions", "logger.warn">>
    ELSE <<"sendSessions", "transport.sendSessions">>

\* Variant: no early return.
FlushNeverReturnsEarly(p) == FALSE

\* Variant: flush() always returns before sending.
FlushAlwaysReturnsEarly(p) == TRUE

\* flush() returns early when the table has no keys.
FlushReturnsEarly(p) == Cardinality(Keys(p)) = 0

\* Variant: the timer is not cancelled.
ClearTimeoutNoOp(active) == active

\* clearTimeout(this._intervalId): whether the timer is armed afterwards.
ClearTimeout(active) == FALSE

\* Date.parse of an ISO string, the inverse of ToISOString.
FromISOString(iso) ==
    iso.hour * MsPerHour + iso.minute * MsPerMinute + iso.second * MsPerSecond + iso.ms

\* Variant: a rejected payload is put back into the table.
PendingAfterRejectRequeues(p, payload) ==
    p \o [i \in DOMAIN payload.aggregates |->
            [key   |-> FromISOString(payload.aggregates[i].started[1]),
             value |-> payload.aggregates[i]]]

\* The table after the promise of a delivered payload is rejected: the handler
\* only logs.
PendingAfterReject(p, payload) == p

\* The table after the promise of a delivered payload is resolved: then(null, ...)
PendingAfterResolve(p, payload) == p

(***************************************************************************)
(* Initial state: a SessionFlusher just constructed, a Session just        *)
(* constructed without a context.                                          *)
(***************************************************************************)
\* Client configurations of the hub.
ClientOptions == {[release |-> "1.0", environment |-> "production"]}
Clients == {None} \cup {Some(o) : o \in ClientOptions}

\* uuid4(): a fresh id of 32 hex characters; n tells the ids apart.
Uuid4(n) == [i \in 1..32 |-> IF i = 1 THEN n ELSE 0]

\* The field initialisers of class Session.
NewSession(t) ==
    [userAgent   |-> Undefined,
     errors      |-> 0,
     release     |-> Undefined,
     sid         |-> Uuid4(1),
     did         |-> Undefined,
     timestamp   |-> t,
     started     |-> t,
     duration    |-> 0,
     status      |-> "ok",
     sessionMode |-> "application",
     environment |-> Undefined,
     ipAddress   |-> Undefined,
     init        |-> TRUE]

(***************************************************************************)
(* Session.update() and Session.close().  A context is a function from the *)
(* names of the fields it supplies to their values; a field that is absent *)
(* reads as undefined.                                                     *)
(***************************************************************************)
SessionStatus == {"ok", "exited", "crashed", "abnormal"}

Has(c, f) == f \in DOMAIN c

\* JS truthiness of an optional string field, of an optional number field and
\* of an optional id (a sequence of characters).
TruthyString(c, f) == Has(c, f) /\ c[f] # "" /\ c[f] # Undefined
TruthyNumber(c, f) == Has(c, f) /\ c[f] # 0
TruthySid(c, f) == Has(c, f) /\ c[f] # <<>>

\* context.user.id || context.user.email || context.user.username
UserDid(u) ==
    IF TruthyString(u, "id") THEN u["id"]
    ELSE IF TruthyString(u, "email") THEN u["email"]
    ELSE IF TruthyString(u, "username") THEN u["username"]
    ELSE Undefined

\* Variant of update(): duration is computed from the started held before the call.
UpdateStaleStarted(s, c, t, fresh) ==
    LET ts  == IF TruthyNumber(c, "timestamp") THEN c["timestamp"] ELSE t
        st1 == IF Has(c, "started") THEN c["started"] ELSE s.started
    IN  [s EXCEPT !.timestamp = ts,
                  !.started = st1,
                  !.status = IF TruthyString(c, "status") THEN c["status"] ELSE @,
                  !.init = IF Has(c, "init") THEN c["init"] ELSE @,
                  !.sid = IF TruthySid(c, "sid")
                          THEN (IF Len(c["sid"]) = 32 THEN c["sid"] ELSE fresh) ELSE @,
                  !.duration = IF Has(c, "duration") THEN c["duration"]
                               ELSE ts - s.started]

\* Variant of update(): init is cleared unless the context supplies it.
UpdateClearsInit(s, c, t, fresh) ==
    LET ts  == IF TruthyNumber(c, "timestamp") THEN c["timestamp"] ELSE t
        st1 == IF Has(c, "started") THEN c["started"] ELSE s.started
    IN  [s EXCEPT !.timestamp = ts,
                  !.started = st1,
                  !.status = IF TruthyString(c, "status") THEN c["status"] ELSE @,
                  !.init = IF Has(c, "init") THEN c["init"] ELSE FALSE,
                  !.sid = IF TruthySid(c, "sid")
                          THEN (IF Len(c["sid"]) = 32 THEN c["sid"] ELSE fresh) ELSE @,
                  !.duration = IF Has(c, "duration") THEN c["duration"] ELSE ts - st1]

\* Variant of update(): any supplied sid is taken as it is.
UpdateTakesAnySid(s, c, t, fresh) ==
    LET ts  == IF TruthyNumber(c, "timestamp") THEN c["timestamp"] ELSE t
        st1 == IF Has(c, "started") THEN c["started"] ELSE s.started
    IN  [s EXCEPT !.timestamp = ts,
                  !.started = st1,
                  !.status = IF TruthyString(c, "status") THEN c["status"] ELSE @,
                  !.init = IF Has(c, "init") THEN c["init"] ELSE @,
                  !.sid = IF TruthySid(c, "sid") THEN c["sid"] ELSE @,
                  !.duration = IF Has(c, "duration") THEN c["duration"] ELSE ts - st1]

\* update(context) at time t; fresh is the id uuid4() returns if it is called.
Update(s, c, t, fresh) ==
    LET hasUser == Has(c, "user")
        ip1  == IF hasUser /\ TruthyString(c["user"], "ip_address")
                THEN c["user"]["ip_address"] ELSE s.ipAddress
        did1 == IF hasUser /\ ~TruthyString(c, "did")
                THEN UserDid(c["user"]) ELSE s.did
        ts   == IF TruthyNumber(c, "timestamp") THEN c["timestamp"] ELSE t
        sid1 == IF TruthySid(c, "sid")
                THEN (IF Len(c["sid"]) = 32 THEN c["sid"] ELSE fresh)
                ELSE s.sid
        init1 == IF Has(c, "init") THEN c["init"] ELSE s.init
        did2 == IF TruthyString(c, "did") THEN c["did"] ELSE did1
        st1  == IF Has(c, "started") THEN c["started"] ELSE s.started
        dur  == IF Has(c, "duration") THEN c["duration"] ELSE ts - st1
    IN  [userAgent   |-> IF TruthyString(c, "userAgent") THEN c["userAgent"] ELSE s.userAgent,
         errors      |-> IF Has(c, "errors") THEN c["errors"] ELSE s.errors,
         release     |-> IF TruthyString(c, "release") THEN c["release"] ELSE s.release,
         sid         |-> sid1,
         did         |-> did2,
         timestamp   |-> ts,
         started     |-> st1,
         duration    |-> dur,
         status      |-> IF TruthyString(c, "status") THEN c["status"] ELSE s.status,
         sessionMode |-> IF TruthyString(c, "sessionMode") THEN c["sessionMode"]
                         ELSE s.sessionMode,
         environment |-> IF TruthyString(c, "environment") THEN c["environment"]
                         ELSE s.environment,
         ipAddress   |-> IF TruthyString(c, "ipAddress") THEN c["ipAddress"] ELSE ip1,
         init        |-> init1]

\* Variant: close() without a status always sets Exited.
CloseContextAlwaysExited(s, status) ==
    IF status # None THEN [f \in {"status"} |-> status[1]]
    ELSE [f \in {"status"} |-> "exited"]

\* Variant: close() without a status on an ended session marks it as not initial.
CloseContextClearsInit(s, status) ==
    IF status # None THEN [f \in {"status"} |-> status[1]]
    ELSE IF s.status = "ok" THEN [f \in {"status"} |-> "exited"]
    ELSE [f \in {"init"} |-> FALSE]

\* The context close(status?) passes to update(); status is None when omitted.
CloseContext(s, status) ==
    IF status # None THEN [f \in {"status"} |-> status[1]]
    ELSE IF s.status = "ok" THEN [f \in {"status"} |-> "exited"]
    ELSE [f \in {} |-> Undefined]

\* close(status?) at time t.
SessionCloseResult(s, status, t, fresh) == Update(s, CloseContext(s, status), t, fresh)

\* new Session(context?) at time t; context is None when omitted.
Construct(context, t, fresh) ==
    IF context = None THEN NewSession(t)
    ELSE Update(NewSession(t), context[1], t, fresh)

FlusherInit ==
    /\ pendingAggregates = <<>>
    /\ sessionAttrs = None
    /\ intervalActive = TRUE
    /\ transportSends \in BOOLEAN
    /\ client \in Clients
    /\ requestSession = None
    /\ sessionsMade = 0
    /\ inflight = {}
    /\ delivered = <<>>
    /\ handed = <<>>
    /\ cycleCalls = <<>>
    /\ sessionCounts = [i \in 1..MaxSessions |-> 0]
    /\ opTrace = <<"constructor", "setInterval">>

ClockInit ==
    /\ now = StartOfClock

\* No wrapped function has been called yet.
NoInvocation ==
    [pc |-> "idle", calls |-> 0, clientThen |-> None, enabled |-> FALSE,
     raised |-> FALSE, trace |-> <<>>]

Init ==
    /\ ClockInit
    /\ FlusherInit
    /\ session = NewSession(now)
    /\ invocation = NoInvocation

(***************************************************************************)
(* The clock and the hub's scope.                                          *)
(***************************************************************************)
Tick ==
    /\ \E t \in Instants :
           /\ t > now
           /\ now' = t
    /\ opTrace' = <<"clock">>
    /\ UNCHANGED <<pendingAggregates, sessionAttrs, intervalActive, transportSends,
                   client, requestSession, sessionsMade, inflight, delivered,
                   handed, cycleCalls, sessionCounts,
                   session, invocation>>

\* The scope is given a new request session.
SetRequestSession ==
    /\ sessionsMade < MaxSessions
    /\ sessionsMade' = sessionsMade + 1
    /\ requestSession' = Some([id |-> sessionsMade + 1, status |-> "ok"])
    /\ opTrace' = <<"scope.setRequestSession">>
    /\ UNCHANGED <<clockVars, pendingAggregates, sessionAttrs, intervalActive,
                   transportSends, client, inflight, delivered, handed,
                   cycleCalls, sessionCounts,
                   session, invocation>>

\* An error is captured while the request session is ok.
MarkRequestSession ==
    /\ requestSession # None
    /\ requestSession[1].status = "ok"
    /\ requestSession' = Some([requestSession[1] EXCEPT !.status = "errored"])
    /\ opTrace' = <<"scope.requestSession.status">>
    /\ UNCHANGED <<clockVars, pendingAggregates, sessionAttrs, intervalActive,
                   transportSends, client, sessionsMade, inflight, delivered,
                   handed, cycleCalls, sessionCounts,
                   session, invocation>>

(***************************************************************************)
(* SessionFlusher operations.                                              *)
(***************************************************************************)
\* incrementSessionCount() calls made so far.
RECURSIVE CallsHanded(_)
CallsHanded(h) == IF h = <<>> THEN 0 ELSE Len(Head(h).calls) + CallsHanded(Tail(h))

TotalCalls == Len(cycleCalls) + CallsHanded(handed)

IncrementSessionCount ==
    /\ TotalCalls < MaxCalls
    /\ LET p1 == PendingAfterIncrement(pendingAggregates, now, LocalOffset, requestSession)
           k  == SessionStartedTrunc(now, LocalOffset)
       IN  /\ sessionAttrs' = CaptureAttrs(sessionAttrs, client)
           /\ pendingAggregates' = p1
           /\ requestSession' = ClearStatus(requestSession)
           /\ cycleCalls' = Append(cycleCalls,
                  [now |-> now, present |-> requestSession # None,
                   status |-> IF requestSession = None THEN Undefined
                              ELSE requestSession[1].status,
                   key |-> k, started |-> p1[IndexOf(p1, k)].value.started,
                   client |-> client])
           /\ sessionCounts' =
                  IF requestSession = None THEN sessionCounts
                  ELSE [sessionCounts EXCEPT ![requestSession[1].id] =
                            @ + TableTotal(p1) - TableTotal(pendingAggregates)]
    /\ opTrace' = <<"incrementSessionCount">>
    /\ UNCHANGED <<clockVars, intervalActive, transportSends, client, sessionsMade,
                   inflight, delivered, handed,
                   session, invocation>>

\* The body of flush(), run after the steps `before` of the calling operation.
FlushBody(before) ==
    IF FlushReturnsEarly(pendingAggregates)
    THEN /\ opTrace' = before \o <<"flush">>
         /\ UNCHANGED <<pendingAggregates, sessionAttrs, inflight, delivered,
                        handed, cycleCalls>>
    ELSE LET h    == FlushHandOff(pendingAggregates, sessionAttrs)
             sent == SendSessionsTrace(transportSends)
             goes == "transport.sendSessions" \in Range(sent)
         IN  /\ pendingAggregates' = h.pendingAfter
             /\ sessionAttrs' = h.attrsAfter
             /\ handed' = Append(handed,
                    [payload |-> h.payload, pendingAtCall |-> h.pendingAtCall,
                     attrsAtCall |-> h.attrsAtCall, calls |-> cycleCalls])
             /\ delivered' = IF goes THEN Append(delivered, h.payload) ELSE delivered
             /\ inflight' = IF goes THEN inflight \cup {Len(delivered) + 1} ELSE inflight
             /\ cycleCalls' = <<>>
             /\ opTrace' = before \o <<"flush">> \o sent

\* flush() called by the owner of the flusher.
Flush ==
    /\ FlushBody(<<>>)
    /\ UNCHANGED <<clockVars, intervalActive, transportSends, client,
                   requestSession, sessionsMade, sessionCounts,
                   session, invocation>>

\* The recurring timer armed by the constructor fires.
TimerFires ==
    /\ intervalActive
    /\ FlushBody(<<"timer">>)
    /\ UNCHANGED <<clockVars, intervalActive, transportSends, client,
                   requestSession, sessionsMade, sessionCounts,
                   session, invocation>>

Close ==
    /\ intervalActive' = ClearTimeout(intervalActive)
    /\ FlushBody(<<"close", "clearTimeout">>)
    /\ UNCHANGED <<clockVars, transportSends, client, requestSession,
                   sessionsMade, sessionCounts,
                   session, invocation>>

\* The promise of delivered payload i is resolved.
SendResolves ==
    \E i \in inflight :
        /\ inflight' = inflight \ {i}
        /\ pendingAggregates' = PendingAfterResolve(pendingAggregates, delivered[i])
        /\ opTrace' = <<"resolved">>
        /\ UNCHANGED <<clockVars, sessionAttrs, intervalActive, transportSends,
                       client, requestSession, sessionsMade, delivered, handed,
                       cycleCalls, sessionCounts,
                   session, invocation>>

\* The promise of delivered payload i is rejected.
SendRejects ==
    \E i \in inflight :
        /\ inflight' = inflight \ {i}
        /\ pendingAggregates' = PendingAfterReject(pendingAggregates, delivered[i])
        /\ opTrace' = <<"rejected", "logger.error">>
        /\ UNCHANGED <<clockVars, sessionAttrs, intervalActive, transportSends,
                       client, requestSession, sessionsMade, delivered, handed,
                       cycleCalls, sessionCounts,
                   session, invocation>>

Next ==
    \/ Tick
    \/ SetRequestSession
    \/ MarkRequestSession
    \/ IncrementSessionCount
    \/ Flush
    \/ TimerFires
    \/ Close
    \/ SendResolves
    \/ SendRejects

Spec == Init /\ [][Next]_vars

(***************************************************************************)
(* What the calls made so far should have counted.                         *)
(***************************************************************************)
Outcomes == {"errored", "exited"}

RECURSIVE CallsOf(_)
CallsOf(h) == IF h = <<>> THEN <<>> ELSE Head(h).calls \o CallsOf(Tail(h))

\* Every incrementSessionCount() call made so far, in order.
AllCalls == CallsOf(handed) \o cycleCalls

CallKeys(cs) == {cs[i].key : i \in DOMAIN cs}

\* Calls of cs at key k that met an ambient session and saw outcome o: errored
\* when its status was "errored" at the call, exited otherwise.
CallsWith(cs, k, o) ==
    {i \in DOMAIN cs :
        /\ cs[i].key = k
        /\ cs[i].present
        /\ (o = "errored") <=> (cs[i].status = "errored")}

\* The counts of the bucket k after the calls cs: a count of 0 is absent.
ExpectedCounts(cs, k) ==
    [o \in {x \in Outcomes : CallsWith(cs, k, x) # {}} |->
        Cardinality(CallsWith(cs, k, o))]

CountOf(b, o) == IF o \in DOMAIN b.counts THEN b.counts[o] ELSE 0

PendingCount(k, o) ==
    IF k \in Keys(pendingAggregates)
    THEN CountOf(pendingAggregates[IndexOf(pendingAggregates, k)].value, o)
    ELSE 0

\* Buckets of a payload that belong to key k.
BucketsOf(payload, k) ==
    {i \in DOMAIN payload.aggregates :
        payload.aggregates[i].started = Some(ToISOString(k))}

RECURSIVE SumCounts(_, _, _)
SumCounts(aggs, k, o) ==
    IF aggs = <<>> THEN 0
    ELSE (IF Head(aggs).started = Some(ToISOString(k)) THEN CountOf(Head(aggs), o) ELSE 0)
         + SumCounts(Tail(aggs), k, o)

RECURSIVE AggregatesTotal(_)
AggregatesTotal(aggs) ==
    IF aggs = <<>> THEN 0 ELSE BucketTotal(Head(aggs)) + AggregatesTotal(Tail(aggs))

RECURSIVE HandedCount(_, _, _)
HandedCount(h, k, o) ==
    IF h = <<>> THEN 0
    ELSE SumCounts(Head(h).payload.aggregates, k, o) + HandedCount(Tail(h), k, o)

\* The table holds exactly what the calls cs put there.
PendingHoldsExactly(cs) ==
    /\ Keys(pendingAggregates) = CallKeys(cs)
    /\ Len(pendingAggregates) = Cardinality(CallKeys(cs))
    /\ \A i \in DOMAIN pendingAggregates :
           pendingAggregates[i].value =
               [started |-> Some(ToISOString(pendingAggregates[i].key)),
                counts  |-> ExpectedCounts(cs, pendingAggregates[i].key)]

(***************************************************************************)
(* C1..C9: the SessionFlusher.                                             *)
(***************************************************************************)

\* C1: every payload a flush hands over holds, for each bucket key used by the
\* calls made since the previous flush, exactly one bucket, with errored = the
\* number of those calls that met an ambient session of status "errored" and
\* exited = the number that met an ambient session of any other status (a count
\* of 0 is absent); with a transport that sends, that payload is delivered.
C1_FlushHandsCycleCounts ==
    \A i \in DOMAIN handed :
        LET h == handed[i]
        IN  /\ \A k \in CallKeys(h.calls) :
                   /\ Cardinality(BucketsOf(h.payload, k)) = 1
                   /\ \A b \in BucketsOf(h.payload, k) :
                          h.payload.aggregates[b].counts = ExpectedCounts(h.calls, k)
            /\ transportSends => h.payload \in Range(delivered)

\* Two calls on one key, the first meeting status "errored" and the second
\* another status, have been flushed as errored: 1, exited: 1.
C1_Witness ==
    \E i \in DOMAIN handed :
        /\ Len(handed[i].calls) = 2
        /\ \A j \in 1..2 : handed[i].calls[j].present
        /\ handed[i].calls[1].status = "errored"
        /\ handed[i].calls[2].status # "errored"
        /\ handed[i].calls[1].key = handed[i].calls[2].key
        /\ Len(handed[i].payload.aggregates) = 1
        /\ handed[i].payload.aggregates[1].counts = [errored |-> 1, exited |-> 1]
        /\ handed[i].payload \in Range(delivered)

\* C2: for each bucket key and outcome, the count pending plus the counts in
\* all payloads handed to sendSessions equals the number of calls that
\* recorded that outcome for that key.
C2_NoLostNoDuplicatedUpdates ==
    \A k \in CallKeys(AllCalls) : \A o \in Outcomes :
        PendingCount(k, o) + HandedCount(handed, k, o)
            = Cardinality(CallsWith(AllCalls, k, o))

\* A call was counted while an earlier payload was still in flight.
C2_Witness ==
    /\ inflight # {}
    /\ handed # <<>>
    /\ TableTotal(pendingAggregates) > 0

\* C3: the table is empty and _sessionAttrs unset when the payload is handed to
\* sendSessions and after the flush; the first call after a flush makes a new
\* bucket that holds only what this one call counted.
C3_FlushClearsBeforeSend ==
    /\ \A i \in DOMAIN handed :
           /\ handed[i].pendingAtCall = <<>>
           /\ handed[i].attrsAtCall = None
    /\ ("flush" \in Range(opTrace)) => (pendingAggregates = <<>> /\ sessionAttrs = None)
    /\ (handed # <<>> /\ Len(cycleCalls) = 1) =>
           pendingAggregates =
               <<[key   |-> cycleCalls[1].key,
                  value |-> [started |-> Some(ToISOString(cycleCalls[1].key)),
                             counts  |-> ExpectedCounts(cycleCalls, cycleCalls[1].key)]]>>

\* After a flush that sent counts, one call has made a fresh bucket with its count.
C3_Witness ==
    /\ handed # <<>>
    /\ AggregatesTotal(handed[1].payload.aggregates) >= 1
    /\ Len(cycleCalls) = 1
    /\ cycleCalls[1].key \in CallKeys(handed[1].calls)
    /\ TableTotal(pendingAggregates) = 1

\* C4: a flush() that finds the table empty, whether called by the timer, by
\* the owner or from close(), does not call sendSessions and changes nothing of
\* the table, the attrs, or what has been handed over and delivered.
C4_EmptyFlushIsNoOp ==
    [][(Keys(pendingAggregates) = {} /\ "flush" \in Range(opTrace'))
         => /\ "sendSessions" \notin Range(opTrace')
            /\ UNCHANGED <<pendingAggregates, sessionAttrs, handed, delivered,
                           inflight, cycleCalls>>]_vars

\* close() has flushed an empty table on a flusher that has sent nothing.
C4_Witness ==
    /\ opTrace = <<"close", "clearTimeout", "flush">>
    /\ handed = <<>>
    /\ delivered = <<>>

\* C5: close() cancels the timer and then runs flush() exactly once; once the
\* timer is cancelled it stays cancelled and no timer-driven flush happens.
C5_CloseCancelsTimerFlushesOnce ==
    /\ [](opTrace[1] = "close" =>
              /\ ~intervalActive
              /\ opTrace[2] = "clearTimeout"
              /\ opTrace[3] = "flush"
              /\ Cardinality({i \in DOMAIN opTrace : opTrace[i] = "flush"}) = 1)
    /\ [](~intervalActive => opTrace[1] # "timer")
    /\ [][~intervalActive => ~intervalActive']_vars

\* After close(), a later explicit flush() ran on the closed flusher.
C5_Witness ==
    /\ ~intervalActive
    /\ opTrace[1] = "flush"
    /\ handed # <<>>

\* C6: one ambient request session contributes at most one count in total.
C6_SessionCountedAtMostOnce ==
    \A id \in DOMAIN sessionCounts : sessionCounts[id] <= 1

\* The top of the minute of t.
TopOfMinute(t) == t - (t % MsPerMinute)

TopOfHour(t) == t - (t % MsPerHour)

\* C7: the bucket key of a call is its `now` truncated to the top of the
\* minute; calls in the same minute share a bucket, calls in different minutes
\* of the same hour use different buckets with different `started`.
C7_KeyIsTopOfMinute ==
    \A i \in DOMAIN AllCalls : \A j \in DOMAIN AllCalls :
        LET a == AllCalls[i]
            b == AllCalls[j]
        IN  /\ a.key = TopOfMinute(a.now)
            /\ TopOfMinute(a.now) = TopOfMinute(b.now) => a.key = b.key
            /\ (TopOfMinute(a.now) # TopOfMinute(b.now)
                  /\ TopOfHour(a.now) = TopOfHour(b.now))
                    => (a.key # b.key /\ a.started # b.started)

\* C8: with a transport that has no sendSessions, a flush of pending buckets
\* throws nothing and delivers nothing, yet leaves the table empty and the
\* attrs unset; what it dropped is in no later payload and not in the table.
C8_MissingSendSessionsDrops ==
    ~transportSends =>
        /\ delivered = <<>>
        /\ inflight = {}
        /\ Range(opTrace) \cap {"TypeError", "transport.sendSessions"} = {}
        /\ ("sendSessions" \in Range(opTrace)) =>
               (pendingAggregates = <<>> /\ sessionAttrs = None)
        /\ PendingHoldsExactly(cycleCalls)
        /\ \A i \in DOMAIN handed :
               AggregatesTotal(handed[i].payload.aggregates)
                   = Cardinality({j \in DOMAIN handed[i].calls : handed[i].calls[j].present})

\* Counts were dropped, and a later flush handed over a second payload.
C8_Witness ==
    /\ ~transportSends
    /\ Len(handed) = 2
    /\ AggregatesTotal(handed[1].payload.aggregates) = 1
    /\ AggregatesTotal(handed[2].payload.aggregates) = 1
    /\ "logger.warn" \in Range(opTrace)

\* C9: a send that resolves or rejects changes nothing of the flusher: nothing
\* is retried or put back, and the table and attrs hold exactly what the calls
\* since the last flush put there.
C9_SettlingChangesNothing ==
    /\ [][(inflight' # inflight /\ inflight' \subseteq inflight)
            => UNCHANGED <<pendingAggregates, sessionAttrs, intervalActive,
                           handed, delivered, cycleCalls>>]_vars
    /\ [](PendingHoldsExactly(cycleCalls))
    /\ []((sessionAttrs = None) <=> (cycleCalls = <<>>))

\* A send was rejected after a call had been counted since its flush.
C9_Witness ==
    /\ opTrace = <<"rejected", "logger.error">>
    /\ TableTotal(pendingAggregates) >= 1
    /\ handed # <<>>

(***************************************************************************)
(* SessionSpec: one Session under update() and close(); the flusher is     *)
(* left as constructed.                                                    *)
(***************************************************************************)
\* Ids uuid4() may return after the one given at construction.
FreshIds == {Uuid4(2)}

\* A supplied sid of n characters.
SidOfLength(n) == [i \in 1..n |-> 7]

EmptyContext == [f \in {} |-> Undefined]

\* Lengths of the sids supplied: empty, too short, exact, too long.
SuppliedSidLengths == {0, 3, 32, 33}

\* The contexts new Session() is called with: no started, no status.
ConstructorContexts ==
    {EmptyContext, ("sid" :> SidOfLength(32)), ("sid" :> SidOfLength(3))}

\* What a context supplies, as recorded in opTrace.
DurationGiven(c) == IF Has(c, "duration") THEN "duration" ELSE "no duration"

InitGiven(c) ==
    IF ~Has(c, "init") THEN "no init"
    ELSE IF c["init"] THEN "init: true" ELSE "init: false"

SidGiven(c) ==
    IF ~Has(c, "sid") THEN "no sid"
    ELSE IF Len(c["sid"]) = 0 THEN "sid: empty"
    ELSE IF Len(c["sid"]) = 32 THEN "sid: 32"
    ELSE "sid: other"

\* The contexts update() is called with.
\* A context that supplies the descriptive fields of a session.
DescribingContext ==
    [user |-> [ip_address |-> "10.0.0.1", id |-> "user-1"],
     release |-> "1.0", environment |-> "production", userAgent |-> "agent",
     errors |-> 1, sessionMode |-> "request"]

Contexts ==
    {EmptyContext, DescribingContext}
    \cup {("status" :> st) : st \in SessionStatus}
    \cup {("sid" :> SidOfLength(n)) : n \in SuppliedSidLengths}
    \cup {("init" :> FALSE), ("init" :> TRUE)}
    \cup {("started" :> StartOfClock + MsPerSecond)}
    \cup {("timestamp" :> StartOfClock + 2 * MsPerMinute)}
    \cup {("duration" :> 5)}

\* The statuses close() may be given: none, or any status but Ok.
CloseStatuses == {None} \cup {Some(st) : st \in SessionStatus \ {"ok"}}

SessionInit ==
    /\ ClockInit
    /\ FlusherInit
    /\ transportSends
    /\ client = None
    /\ \E c \in {None} \cup {Some(x) : x \in ConstructorContexts} :
           session = Construct(c, now, Uuid4(2))
    /\ invocation = NoInvocation

SessionTick ==
    /\ \E t \in Instants :
           /\ t > now
           /\ now' = t
    /\ opTrace' = <<"clock">>
    /\ UNCHANGED <<pendingAggregates, sessionAttrs, intervalActive, transportSends,
                   client, requestSession, sessionsMade, inflight, delivered,
                   handed, cycleCalls, sessionCounts,
                   session, invocation>>

SessionUpdate ==
    /\ \E c \in Contexts : \E fresh \in FreshIds :
           /\ session' = Update(session, c, now, fresh)
           /\ opTrace' = <<"Session.update", DurationGiven(c), InitGiven(c), SidGiven(c)>>
    /\ UNCHANGED <<clockVars, pendingAggregates, sessionAttrs, intervalActive,
                   transportSends, client, requestSession, sessionsMade, inflight,
                   delivered, handed, cycleCalls, sessionCounts, invocation>>

SessionClose ==
    /\ \E st \in CloseStatuses : \E fresh \in FreshIds :
           /\ session' = SessionCloseResult(session, st, now, fresh)
           /\ opTrace' = <<"Session.close", IF st = None THEN "none" ELSE st[1]>>
    /\ UNCHANGED <<clockVars, pendingAggregates, sessionAttrs, intervalActive,
                   transportSends, client, requestSession, sessionsMade, inflight,
                   delivered, handed, cycleCalls, sessionCounts, invocation>>

SessionNext ==
    \/ SessionTick
    \/ SessionUpdate
    \/ SessionClose

SessionSpec == SessionInit /\ [][SessionNext]_vars

(***************************************************************************)
(* C10: Session.close().                                                   *)
(***************************************************************************)

\* C10: close() without a status turns status Ok into Exited and leaves
\* Exited, Crashed and Abnormal as they are; close(status) sets that status.
C10_CloseSetsTerminalStatus ==
    [][opTrace'[1] = "Session.close" =>
          /\ (opTrace'[2] = "none" /\ session.status = "ok")
                 => session'.status = "exited"
          /\ (opTrace'[2] = "none" /\ session.status # "ok")
                 => session'.status = session.status
          /\ opTrace'[2] # "none" => session'.status = opTrace'[2]]_vars

\* close() without a status has run on a crashed session at a later time.
C10_Witness ==
    /\ opTrace = <<"Session.close", "none">>
    /\ session.status = "crashed"
    /\ session.timestamp > session.started

(***************************************************************************)
(* C11, C12: duration and sid of a Session.                                *)
(***************************************************************************)

\* C11: after construction, and after every update() or close() whose context
\* supplies no duration, duration = timestamp - started, with the timestamp
\* and started that this same call left.
C11_DurationIsTimestampMinusStarted ==
    (\/ opTrace[1] = "constructor"
     \/ opTrace[1] = "Session.close"
     \/ (opTrace[1] = "Session.update" /\ opTrace[2] = "no duration"))
        => session.duration = session.timestamp - session.started

\* An update that supplied only a later started has left a negative duration
\* equal to timestamp - started.
C11_Witness ==
    /\ opTrace[1] = "Session.update"
    /\ opTrace[2] = "no duration"
    /\ session.started = StartOfClock + MsPerSecond
    /\ session.timestamp # session.started
    /\ session.duration = session.timestamp - session.started

\* C12: sid always has 32 characters; update() keeps a supplied sid of 32
\* characters, replaces any other supplied non-empty sid by a fresh id, and
\* leaves sid alone when none (or an empty one) is supplied.
C12_SidHas32Characters ==
    /\ [](Len(session.sid) = 32)
    /\ [][opTrace'[1] = "Session.update" =>
            /\ opTrace'[4] = "sid: 32" => session'.sid = SidOfLength(32)
            /\ opTrace'[4] = "sid: other" => session'.sid \in FreshIds
            /\ opTrace'[4] \in {"no sid", "sid: empty"} => session'.sid = session.sid]_vars

\* A malformed sid was supplied and a fresh id of 32 characters took its place.
C12_Witness ==
    /\ opTrace[1] = "Session.update"
    /\ opTrace[4] = "sid: other"
    /\ session.sid \in FreshIds
    /\ Len(session.sid) = 32

\* The flusher with its callers and the clock, promises left unsettled: the recurring timer of the constructor keeps firing while it is armed.
FairInit ==
    /\ Init
    /\ client = None

FairNext ==
    \/ Tick
    \/ SetRequestSession
    \/ IncrementSessionCount
    \/ Flush
    \/ TimerFires
    \/ Close

FairSpec == FairInit /\ [][FairNext]_vars /\ WF_vars(TimerFires)

\* Counts recorded so far: every call that met an ambient session added one.
RecordedTotal == Cardinality({i \in DOMAIN AllCalls : AllCalls[i].present})

RECURSIVE HandedTotal(_)
HandedTotal(h) ==
    IF h = <<>> THEN 0
    ELSE AggregatesTotal(Head(h).payload.aggregates) + HandedTotal(Tail(h))

\* C13: while the timer is armed every recorded count is eventually part of a
\* payload handed to sendSessions, and close() leaves nothing pending: all
\* counts recorded before it have been handed over when it returns.
C13_CountsEventuallyHanded ==
    /\ \A n \in 1..MaxCalls :
           (intervalActive /\ RecordedTotal >= n) ~> (HandedTotal(handed) >= n)
    /\ [](opTrace[1] = "close" =>
            /\ pendingAggregates = <<>>
            /\ cycleCalls = <<>>
            /\ HandedTotal(handed) = RecordedTotal)

\* The timer has handed over every count recorded so far.
C13_Witness ==
    /\ opTrace[1] = "timer"
    /\ intervalActive
    /\ RecordedTotal >= 1
    /\ HandedTotal(handed) = RecordedTotal

\* The configurations the active client goes through while a flusher runs.
ChangingClientOptions ==
    ClientOptions \cup {[release |-> "2.0", environment |-> "staging"]}
ChangingClients == {None} \cup {Some(o) : o \in ChangingClientOptions}

\* Another client, or none, becomes the one getCurrentHub().getClient() returns.
ChangeClient ==
    /\ \E c \in ChangingClients :
           /\ c # client
           /\ client' = c
    /\ opTrace' = <<"hub.bindClient">>
    /\ UNCHANGED <<clockVars, pendingAggregates, sessionAttrs, intervalActive,
                   transportSends, requestSession, sessionsMade, inflight,
                   delivered, handed, cycleCalls, sessionCounts,
                   session, invocation>>

AttrsInit ==
    /\ Init
    /\ transportSends

AttrsNext ==
    \/ ChangeClient
    \/ SetRequestSession
    \/ IncrementSessionCount
    \/ Flush
    \/ TimerFires
    \/ Close

\* The flusher while the client configuration changes under it.
AttrsSpec == AttrsInit /\ [][AttrsNext]_vars

\* { release, environment } of the configuration c, undefined without a client.
ReleaseAndEnvironment(c) ==
    IF c = None THEN [release |-> Undefined, environment |-> Undefined]
    ELSE [release |-> c[1].release, environment |-> c[1].environment]

\* C14: the attrs of every payload handed to sendSessions are the release and
\* environment the client had at the first incrementSessionCount() of that
\* payload's cycle, whatever the client became later in the cycle; the attrs
\* held between flushes are those of the first call of the running cycle.
C14_AttrsSampledAtFirstIncrement ==
    /\ \A i \in DOMAIN handed :
           /\ handed[i].calls # <<>>
           /\ handed[i].payload.attrs
                  = Some(ReleaseAndEnvironment(handed[i].calls[1].client))
    /\ sessionAttrs # None =>
           /\ cycleCalls # <<>>
           /\ sessionAttrs = Some(ReleaseAndEnvironment(cycleCalls[1].client))
    /\ cycleCalls # <<>> => sessionAttrs # None

\* A payload whose cycle saw two configurations carries the first one, and the
\* client at the time of the flush is yet another.
C14_Witness ==
    \E i \in DOMAIN handed :
        /\ Len(handed[i].calls) >= 2
        /\ handed[i].calls[1].client # handed[i].calls[2].client
        /\ handed[i].calls[1].client # None
        /\ handed[i].payload.attrs
               = Some(ReleaseAndEnvironment(handed[i].calls[1].client))
        /\ client = None

\* A bucket with only started set, for key k.
CountlessBucket(k) == [started |-> Some(ToISOString(k)), counts |-> [o \in {} |-> 0]]

\* C15: incrementSessionCount() without an ambient request session captures
\* _sessionAttrs and makes sure the bucket of the current key exists, new with
\* only started set and no counts, and counts nothing; a payload handed over
\* holds a bucket without counts for each key whose calls met no session.
C15_NoSessionStillMakesBucket ==
    /\ [][(opTrace'[1] = "incrementSessionCount" /\ requestSession = None) =>
            LET k == SessionStartedTrunc(now, LocalOffset)
            IN  /\ sessionAttrs' # None
                /\ k \in Keys(pendingAggregates')
                /\ k \notin Keys(pendingAggregates) =>
                       pendingAggregates' = Append(pendingAggregates,
                           [key |-> k, value |-> CountlessBucket(k)])
                /\ k \in Keys(pendingAggregates) =>
                       pendingAggregates' = pendingAggregates]_vars
    /\ [](\A i \in DOMAIN handed : \A k \in CallKeys(handed[i].calls) :
            (\A j \in DOMAIN handed[i].calls :
                 handed[i].calls[j].key = k => ~handed[i].calls[j].present)
            => /\ handed[i].payload.attrs # None
               /\ \E b \in DOMAIN handed[i].payload.aggregates :
                      handed[i].payload.aggregates[b] = CountlessBucket(k))

\* A flush has delivered a payload whose only bucket has no counts.
C15_Witness ==
    \E i \in DOMAIN handed :
        /\ \A j \in DOMAIN handed[i].calls : ~handed[i].calls[j].present
        /\ Len(handed[i].payload.aggregates) = 1
        /\ DOMAIN handed[i].payload.aggregates[1].counts = {}
        /\ handed[i].payload.aggregates[1].started # None
        /\ handed[i].payload \in Range(delivered)

\* C19: between operations the table of pending aggregates is empty exactly
\* when _sessionAttrs is unset, and every payload handed to sendSessions has
\* attrs and at least one bucket.
C19_TableEmptyIffAttrsUnset ==
    /\ (pendingAggregates = <<>>) <=> (sessionAttrs = None)
    /\ \A i \in DOMAIN handed :
           /\ handed[i].payload.attrs # None
           /\ Len(handed[i].payload.aggregates) >= 1

\* A cycle has been handed over, with attrs and a bucket, and the next cycle
\* has begun: the table and the attrs are both set again.
C19_Witness ==
    /\ handed # <<>>
    /\ handed[1].payload.attrs # None
    /\ Len(handed[1].payload.aggregates) >= 1
    /\ pendingAggregates # <<>>
    /\ sessionAttrs # None

\* C16: with a clock that never goes back, duration is never negative, whatever
\* the contexts given to the constructor, update() and close().
C16_DurationNonNegative == session.duration >= 0

\* C17: close() without a status on a session whose status is not "ok"
\* changes timestamp and duration only: sid, did, init, started, status,
\* errors, sessionMode, release, environment, ipAddress and userAgent stay.
C17_CloseOnEndedSessionKeepsFields ==
    [][(opTrace'[1] = "Session.close" /\ opTrace'[2] = "none" /\ session.status # "ok") =>
          /\ \A f \in {"sid", "did", "init", "started", "status", "errors",
                       "sessionMode", "release", "environment", "ipAddress",
                       "userAgent"} : session'[f] = session[f]
          /\ DOMAIN session' = DOMAIN session
          /\ session'.timestamp = now
          /\ session'.duration = now - session.started]_vars

\* close() without a status has run, later, on an abnormal session that still
\* had init set and carried a release, a user and an error count.
C17_Witness ==
    /\ opTrace = <<"Session.close", "none">>
    /\ session.status = "abnormal"
    /\ session.init
    /\ session.release = "1.0"
    /\ session.did = "user-1"
    /\ session.ipAddress = "10.0.0.1"
    /\ session.errors = 1
    /\ session.sessionMode = "request"
    /\ session.duration > 0

\* C18: once constructed, a session that goes through update() or close() has
\* init false afterwards, unless the context of that call sets init to true.
C18_InitFalseAfterLaterCall ==
    [][(/\ opTrace'[1] \in {"Session.update", "Session.close"}
        /\ ~(opTrace'[1] = "Session.update" /\ opTrace'[3] = "init: true"))
            => session'.init = FALSE]_vars

\* C18, amended: a session is constructed with init true, and update() and
\* close() leave init as it was unless the context supplies init, which is then
\* taken as given, true or false.
C18_InitChangesOnlyWhenSupplied ==
    /\ [](opTrace[1] = "constructor" => session.init)
    /\ [][opTrace'[1] = "Session.close" => session'.init = session.init]_vars
    /\ [][opTrace'[1] = "Session.update" =>
            /\ opTrace'[3] = "init: true" => session'.init
            /\ opTrace'[3] = "init: false" => ~session'.init
            /\ opTrace'[3] = "no init" => session'.init = session.init]_vars

\* An update() that supplied a release but no init has left init true.
C18_Witness ==
    /\ opTrace[1] = "Session.update"
    /\ opTrace[3] = "no init"
    /\ session.release = "1.0"
    /\ session.init

(***************************************************************************)
(* withAutosessionTracking(callback, context): one call of the function it *)
(* returns, step by step; hub.startSession, the callback and               *)
(* hub.endSession either return or throw, and may bind another client.     *)
(***************************************************************************)
TrackingOptions == {None, Some(TRUE), Some(FALSE)}

\* Clients whose options carry autoSessionTracking: absent, true or false.
TrackingClients ==
    {None} \cup {Some([release |-> "1.0", environment |-> "production",
                       autoSessionTracking |-> a]) : a \in TrackingOptions}

\* Variant: an absent autoSessionTracking option counts as true.
IsAutosessionTrackingEnabledByDefault(c) ==
    IF c # None /\ c[1].autoSessionTracking # None
    THEN c[1].autoSessionTracking[1]
    ELSE c # None

\* isAutosessionTrackingEnabled() with c the client of the current hub.
IsAutosessionTrackingEnabled(c) ==
    LET clientOptions == IF c # None THEN c ELSE None
    IN  IF clientOptions # None /\ clientOptions[1].autoSessionTracking # None
        THEN clientOptions[1].autoSessionTracking[1]
        ELSE FALSE

\* What a call that returns (or throws) leaves in the trace.
Called(name, throws) == IF throws THEN name \o " throws" ELSE name

trackingFrame == <<now, pendingAggregates, sessionAttrs, intervalActive,
                   transportSends, requestSession, sessionsMade, inflight,
                   delivered, handed, cycleCalls, sessionCounts, session>>

TrackingInit ==
    /\ ClockInit
    /\ FlusherInit
    /\ transportSends
    /\ client = None
    /\ session = NewSession(now)
    /\ invocation = NoInvocation

\* A client is bound to the hub, or the bound client is replaced or removed.
BindClient ==
    /\ \E c \in TrackingClients :
           /\ c # client
           /\ client' = c
    /\ opTrace' = <<"hub.bindClient">>
    /\ UNCHANGED <<trackingFrame, invocation>>

\* The wrapped function is called: it asks isAutosessionTrackingEnabled().
Invoke ==
    /\ invocation.pc \in {"idle", "returned", "threw"}
    /\ invocation.calls < MaxInvocations
    /\ LET enabled == IsAutosessionTrackingEnabled(client)
       IN  invocation' = [pc |-> IF enabled THEN "startSession" ELSE "callback",
                          calls |-> invocation.calls + 1,
                          clientThen |-> client,
                          enabled |-> enabled,
                          raised |-> FALSE,
                          trace |-> <<>>]
    /\ opTrace' = <<"invoke">>
    /\ UNCHANGED <<trackingFrame, client>>

\* try { hub.startSession(context); ...
StartSession ==
    /\ invocation.pc = "startSession"
    /\ \E throws \in BOOLEAN :
           invocation' = [invocation EXCEPT
               !.trace = Append(@, Called("hub.startSession", throws)),
               !.raised = throws,
               !.pc = IF throws THEN "finally" ELSE "callback"]
    /\ opTrace' = <<"hub.startSession">>
    /\ UNCHANGED <<trackingFrame, client>>

\* callback(...args), inside the try block or in the else branch.
Callback ==
    /\ invocation.pc = "callback"
    /\ \E throws \in BOOLEAN :
           invocation' = [invocation EXCEPT
               !.trace = Append(@, Called("callback", throws)),
               !.raised = throws,
               !.pc = IF invocation.enabled THEN "finally"
                      ELSE IF throws THEN "threw" ELSE "returned"]
    /\ opTrace' = <<"callback">>
    /\ UNCHANGED <<trackingFrame, client>>

\* finally { hub.endSession(); }
EndSession ==
    /\ invocation.pc = "finally"
    /\ \E throws \in BOOLEAN :
           invocation' = [invocation EXCEPT
               !.trace = Append(@, Called("hub.endSession", throws)),
               !.raised = @ \/ throws,
               !.pc = IF invocation.raised \/ throws THEN "threw" ELSE "returned"]
    /\ opTrace' = <<"hub.endSession">>
    /\ UNCHANGED <<trackingFrame, client>>

TrackingNext ==
    \/ BindClient
    \/ Invoke
    \/ StartSession
    \/ Callback
    \/ EndSession

TrackingSpec == TrackingInit /\ [][TrackingNext]_vars

\* The traces of a finished call: each call made returns or throws.
TracesWhenEnabled ==
    {<<Called("hub.startSession", FALSE), Called("callback", c), Called("hub.endSession", e)>> :
        c \in BOOLEAN, e \in BOOLEAN}
    \cup {<<Called("hub.startSession", TRUE), Called("hub.endSession", e)>> : e \in BOOLEAN}
TracesWhenDisabled == {<<Called("callback", c)>> : c \in BOOLEAN}

\* C20: a call of the wrapped function made while the client's options have
\* autoSessionTracking true calls hub.startSession first, the callback next
\* (unless startSession threw) and hub.endSession exactly once, last, also when
\* one of them throws; a call made with no client, or with the option false or
\* absent, calls the callback only.  What the client becomes during the call
\* makes no difference, and the call throws exactly when one of them threw.
C20_SessionAroundCallback ==
    LET on   == /\ invocation.clientThen # None
                /\ invocation.clientThen[1].autoSessionTracking = Some(TRUE)
        done == invocation.pc \in {"returned", "threw"}
    IN  /\ invocation.pc = "startSession" => on /\ invocation.trace = <<>>
        /\ invocation.pc = "callback" =>
               invocation.trace = IF on THEN <<"hub.startSession">> ELSE <<>>
        /\ invocation.pc = "finally" => on
        /\ done => invocation.trace \in
               (IF on THEN TracesWhenEnabled ELSE TracesWhenDisabled)
        /\ done => ((invocation.pc = "threw") <=>
               (\E i \in DOMAIN invocation.trace :
                    invocation.trace[i] \in {"hub.startSession throws",
                        "callback throws", "hub.endSession throws"}))

\* The callback threw in a tracked call, the session was still ended, and the
\* client was taken away during the call.
C20_Witness ==
    /\ invocation.pc = "threw"
    /\ invocation.clientThen # None
    /\ client = None
    /\ invocation.trace = <<"hub.startSession", "callback throws", "hub.endSession">>

====
